---- MODULE Spec2Model ----
(***************************************************************************)
(* A model of PDF_PageGrid.py: every PDF found under the input path is     *)
(* rendered to page images, the pages are tiled into one grid poster, the  *)
(* poster is optionally downscaled and saved once per requested format.    *)
(*                                                                         *)
(* Text values (option values, file names) are sequences of one-character  *)
(* strings, so that split / strip / upper / lower / int() are computed.    *)
(* Images are records of their pixel size; a poster also keeps the list of *)
(* rectangles pasted into it.                                               *)
(***************************************************************************)
EXTENDS Integers, Sequences, FiniteSets, TLC

(***************************************************************************)
(* Bounds of the model.                                                    *)
(***************************************************************************)
MaxPages == 3
MaxDim == 3
MaxMargin == 1
MaxSpacing == 1
MaxCols == 3
MaxWidth == 2
MaxDocs == 2
MaxTokens == 3

(***************************************************************************)
(* Text.                                                                   *)
(***************************************************************************)
Min(a, b) == IF a < b THEN a ELSE b
Max(a, b) == IF a > b THEN a ELSE b

Digits == <<"0", "1", "2", "3", "4", "5", "6", "7", "8", "9">>
Lowers == <<"a", "d", "e", "f", "g", "i", "j", "n", "o", "p", "t", "u", "x">>
Uppers == <<"A", "D", "E", "F", "G", "I", "J", "N", "O", "P", "T", "U", "X">>

IndexOf(ch, alphabet) ==
    IF \E k \in 1..Len(alphabet) : alphabet[k] = ch
    THEN CHOOSE k \in 1..Len(alphabet) : alphabet[k] = ch
    ELSE 0

\* str.lower() and str.upper(), character by character
LowerCh(ch) == IF IndexOf(ch, Uppers) > 0 THEN Lowers[IndexOf(ch, Uppers)] ELSE ch
UpperCh(ch) == IF IndexOf(ch, Lowers) > 0 THEN Uppers[IndexOf(ch, Lowers)] ELSE ch
Lower(s) == [k \in 1..Len(s) |-> LowerCh(s[k])]
Upper(s) == [k \in 1..Len(s) |-> UpperCh(s[k])]

\* str.strip(): leading and trailing blanks removed
RECURSIVE LStrip(_)
LStrip(s) == IF s # <<>> /\ Head(s) = " " THEN LStrip(Tail(s)) ELSE s
RECURSIVE RStrip(_)
RStrip(s) ==
    IF s # <<>> /\ s[Len(s)] = " " THEN RStrip(SubSeq(s, 1, Len(s) - 1)) ELSE s
Strip(s) == RStrip(LStrip(s))

\* str.split(","): the pieces between the commas, empty pieces included
RECURSIVE SplitAcc(_, _, _)
SplitAcc(s, cur, acc) ==
    IF s = <<>> THEN Append(acc, cur)
    ELSE IF Head(s) = "," THEN SplitAcc(Tail(s), <<>>, Append(acc, cur))
    ELSE SplitAcc(Tail(s), Append(cur, Head(s)), acc)
Split(s) == SplitAcc(s, <<>>, <<>>)

\* the text of a --formats value: its tokens with commas between them
RECURSIVE JoinComma(_)
JoinComma(toks) ==
    IF toks = <<>> THEN <<>>
    ELSE IF Len(toks) = 1 THEN toks[1]
    ELSE toks[1] \o <<",">> \o JoinComma(Tail(toks))

\* the value of a run of decimal digits
RECURSIVE DigitsValue(_, _)
DigitsValue(s, acc) ==
    IF s = <<>> THEN acc
    ELSE DigitsValue(Tail(s), 10 * acc + (IndexOf(Head(s), Digits) - 1))

IsDigits(s) == s # <<>> /\ \A k \in 1..Len(s) : IndexOf(s[k], Digits) > 0

\* int(text): blanks stripped, an optional sign, then decimal digits;
\* anything else raises ValueError (the texts of the model hold no "_" and
\* no digit outside 0-9)
ParseInt(text) ==
    LET s == Strip(text)
        signed == s # <<>> /\ Head(s) \in {"+", "-"}
        body == IF signed THEN Tail(s) ELSE s
    IN  IF IsDigits(body)
        THEN [exc |-> "None",
              val |-> IF signed /\ Head(s) = "-"
                      THEN 0 - DigitsValue(body, 0)
                      ELSE DigitsValue(body, 0)]
        ELSE [exc |-> "ValueError", val |-> 0]

\* the decimal text of an integer (used to write option values)
RECURSIVE NatText(_)
NatText(n) ==
    IF n < 10 THEN <<Digits[n + 1]>>
    ELSE Append(NatText(n \div 10), Digits[(n % 10) + 1])
IntText(k) == IF k < 0 THEN <<"-">> \o NatText(0 - k) ELSE NatText(k)

(***************************************************************************)
(* Values of the program.                                                  *)
(***************************************************************************)
PNG == <<"P", "N", "G">>
JPG == <<"J", "P", "G">>
JPEG == <<"J", "P", "E", "G">>
AUTO == <<"a", "u", "t", "o">>
EXT_PNG == <<".", "p", "n", "g">>
EXT_JPG == <<".", "j", "p", "g">>
EXT_PDF == <<".", "p", "d", "f">>

NoExc == "None"
EmptyInput == "ValueError: No images to compose."
BadInt == "ValueError: invalid literal for int() with base 10"
BadColor == "ValueError: unknown color specifier"
DivByZero == "ZeroDivisionError: division by zero"
RenderFailure == "FileDataError: cannot open broken document"
IOFailure == "OSError: cannot write file"

Ok(v) == [exc |-> NoExc, val |-> v]
Raise(e) == [exc |-> e, val |-> <<>>]

(***************************************************************************)
(* resolve_formats                                                         *)
(***************************************************************************)
\* the comprehension of line 72: the stripped, upper-cased, non-empty pieces
RECURSIVE StripUpperNonEmpty(_)
StripUpperNonEmpty(pieces) ==
    IF pieces = <<>> THEN <<>>
    ELSE IF Strip(Head(pieces)) # <<>>
         THEN <<Upper(Strip(Head(pieces)))>> \o StripUpperNonEmpty(Tail(pieces))
         ELSE StripUpperNonEmpty(Tail(pieces))

RequestedFormats(a) ==
    IF a.formats # <<>> THEN StripUpperNonEmpty(Split(a.formats))
    ELSE IF a.both THEN <<PNG, JPEG>>
    ELSE <<Upper(a.format)>>

NormalizeAlias(fmts) == [k \in 1..Len(fmts) |-> IF fmts[k] = JPG THEN JPEG ELSE fmts[k]]

InSeq(x, s) == \E k \in 1..Len(s) : s[k] = x

\* the loop of lines 80-88; its "seen" set always holds the elements of "out"
\* variant: the loop without the "seen" test
RECURSIVE DedupNoCheck(_, _)
DedupNoCheck(fmts, acc) ==
    IF fmts = <<>> THEN acc
    ELSE LET f == Head(fmts) IN
         IF f \notin {PNG, JPEG}
         THEN DedupNoCheck(Tail(fmts), [acc EXCEPT !.warnings = Append(@, f)])
         ELSE DedupNoCheck(Tail(fmts), [acc EXCEPT !.out = Append(@, f)])

RECURSIVE Dedup(_, _)
Dedup(fmts, acc) ==
    IF fmts = <<>> THEN acc
    ELSE LET f == Head(fmts) IN
         IF f \notin {PNG, JPEG}
         THEN Dedup(Tail(fmts), [acc EXCEPT !.warnings = Append(@, f)])
         ELSE IF ~InSeq(f, acc.out)
         THEN Dedup(Tail(fmts), [acc EXCEPT !.out = Append(@, f)])
         ELSE Dedup(Tail(fmts), acc)

\* returns the list of formats and the warnings printed on the way
resolve_formats(a) ==
    LET d == Dedup(NormalizeAlias(RequestedFormats(a)),
                   [out |-> <<>>, warnings |-> <<>>])
    IN  IF d.out = <<>> THEN [d EXCEPT !.out = <<PNG>>] ELSE d

(***************************************************************************)
(* find_pdfs                                                               *)
(***************************************************************************)
\* A path is <<directory name, stem, suffix>>, each a text.
PathStem(p) == p[2]
PathSuffix(p) == p[3]
PathName(p) == p[2] \o p[3]

\* the characters of the file names of the model, in code point order
Letters == <<".", "D", "F", "P", "a", "b", "d", "f", "p", "t", "u", "x", "y">>

\* lexicographic order of two texts
RECURSIVE TextLess(_, _)
TextLess(s, t) ==
    IF t = <<>> THEN FALSE
    ELSE IF s = <<>> THEN TRUE
    ELSE IF Head(s) = Head(t) THEN TextLess(Tail(s), Tail(t))
    ELSE IndexOf(Head(s), Letters) < IndexOf(Head(t), Letters)

\* order of two paths: by their parts (directory, then file name)
PathLess(p, q) ==
    IF p[1] # q[1] THEN TextLess(p[1], q[1]) ELSE TextLess(PathName(p), PathName(q))

\* sorted(...) of a set of paths
RECURSIVE Sorted(_)
Sorted(S) ==
    IF S = {} THEN <<>>
    ELSE LET m == CHOOSE p \in S : \A q \in S \ {p} : PathLess(p, q)
         IN  <<m>> \o Sorted(S \ {m})

\* inp.kind is "file", "dir" or "missing"; inp.files the files at / under it.
\* A single file is taken whatever the case of its suffix; rglob("*.pdf")
\* matches the suffix as written.
find_pdfs(inp) ==
    IF inp.kind = "file" /\ \E p \in inp.files : Lower(PathSuffix(p)) = EXT_PDF
    THEN <<CHOOSE p \in inp.files : TRUE>>
    ELSE IF inp.kind = "dir"
    THEN Sorted({p \in inp.files : PathSuffix(p) = EXT_PDF})
    ELSE <<>>

(***************************************************************************)
(* compute_grid                                                            *)
(***************************************************************************)
\* math.ceil(math.sqrt(n)): the smallest c with c*c >= n
CeilSqrt(n) == CHOOSE c \in 0..n : c * c >= n /\ (c = 0 \/ (c - 1) * (c - 1) < n)

\* variant: the quotient rounded down
FloorDiv(n, c) == n \div c

\* math.ceil(n / c) for c >= 1
CeilDiv(n, c) == (n + c - 1) \div c

compute_grid(n_pages, cols) ==
    IF cols = <<"1">> THEN Ok(<<1, n_pages>>)
    ELSE IF Lower(cols) = AUTO
    THEN LET c == CeilSqrt(n_pages) IN
         IF c = 0 THEN Raise(DivByZero) ELSE Ok(<<c, CeilDiv(n_pages, c)>>)
    ELSE LET p == ParseInt(cols) IN
         IF p.exc # NoExc THEN Raise(BadInt)
         ELSE LET c == Max(1, p.val) IN Ok(<<c, CeilDiv(n_pages, c)>>)

(***************************************************************************)
(* make_poster                                                             *)
(***************************************************************************)
\* ImageColor.getrgb on the colour texts of the model
GetRgb(bg) ==
    CASE bg = "#FFFFFF" -> Ok(<<255, 255, 255>>)
      [] bg = "white" -> Ok(<<255, 255, 255>>)
      [] bg = "#f7f7f7" -> Ok(<<247, 247, 247>>)
      [] OTHER -> Raise(BadColor)

\* max(f(im) for im in images), images not empty
RECURSIVE MaxOf(_)
MaxOf(xs) == IF Len(xs) = 1 THEN xs[1] ELSE Max(xs[1], MaxOf(Tail(xs)))

Widths(images) == [k \in 1..Len(images) |-> images[k].width]
Heights(images) == [k \in 1..Len(images) |-> images[k].height]

\* variant: the size of the first page only
FirstOf(xs) == xs[1]

\* cell_w / cell_h: the largest width / height over all pages
CellSize(xs) == MaxOf(xs)

\* variant: one gap per cell
GridExtentNoGap(n, cell, spacing) == n * cell + n * spacing

\* grid_w / grid_h
GridExtent(n, cell, spacing) == n * cell + (n - 1) * spacing

\* x0 / y0 of the cell in column / row k
CellOrigin(margin, k, cell, spacing) == margin + k * (cell + spacing)

\* variant: the page in the corner of its cell
PasteOffsetCorner(origin, cell, size) == origin

\* off_x / off_y: the page centred in its cell
PasteOffset(origin, cell, size) == origin + ((cell - size) \div 2)

\* the rectangle pasted for the page at 0-based index idx
Paste(im, idx, cols, cell_w, cell_h, margin, spacing) ==
    LET r == idx \div cols
        c == idx % cols
        x0 == CellOrigin(margin, c, cell_w, spacing)
        y0 == CellOrigin(margin, r, cell_h, spacing)
    IN  [x |-> PasteOffset(x0, cell_w, im.width),
         y |-> PasteOffset(y0, cell_h, im.height),
         width |-> im.width, height |-> im.height]

make_poster(images, cols, rows, margin, spacing, bg) ==
    IF images = <<>> THEN Raise(EmptyInput)
    ELSE IF GetRgb(bg).exc # NoExc THEN Raise(BadColor)
    ELSE LET cell_w == CellSize(Widths(images))
             cell_h == CellSize(Heights(images))
             total_w == GridExtent(cols, cell_w, spacing) + 2 * margin
             total_h == GridExtent(rows, cell_h, spacing) + 2 * margin
         IN  Ok([width |-> total_w, height |-> total_h,
                 bg |-> GetRgb(bg).val,
                 pastes |-> [k \in 1..Len(images) |->
                               Paste(images[k], k - 1, cols, cell_w, cell_h,
                                     margin, spacing)],
                 resampled |-> FALSE])

(***************************************************************************)
(* downscale_if_needed                                                     *)
(***************************************************************************)
\* int(height * ratio) with ratio = max_width / width: the quotient truncated.
\* (The float product equals the exact quotient for the sizes of the model.)
ScaledHeight(height, max_width, width) == (height * max_width) \div width

downscale_if_needed(img, max_width) ==
    IF max_width <= 0 \/ img.width <= max_width THEN img
    ELSE [width |-> max_width,
          height |-> Max(1, ScaledHeight(img.height, max_width, img.width)),
          bg |-> img.bg, pastes |-> <<>>, resampled |-> TRUE]

(***************************************************************************)
(* process_pdf: the output path of one format                              *)
(***************************************************************************)
Ext(fmt) == IF Upper(fmt) = JPEG THEN EXT_JPG ELSE EXT_PNG
OutPath(pdf, suffix, fmt) == PathStem(pdf) \o suffix \o Ext(fmt)

(***************************************************************************)
(* The program state.                                                      *)
(***************************************************************************)
VARIABLES
    args,        \* the command line: format, both, formats, cols, bg, margin,
                 \* spacing, max_width, suffix
    input,       \* what is at the input path: [kind, files]
    docs,        \* what each file renders to: [ok, pages]
    unwritable,  \* the output paths that cannot be written
    pc,          \* where main is
    fmts,        \* main: the resolved formats
    pdfs,        \* main: the list of PDFs found
    i,           \* main: the 1-based position of the loop in pdfs
    pages,       \* process_pdf: the rendered pages
    grid,        \* process_pdf: <<cols, rows>>
    poster,      \* process_pdf: the poster
    fi,          \* process_pdf: the 1-based position of the loop in fmts
    out_paths,   \* process_pdf: the paths written so far
    exc,         \* the exception in flight
    writes,      \* every file written, in order
    log,         \* every line printed, in order
    exitCode,    \* the exit status of the process, -1 while it runs
    trace        \* history: <<stage, i>> of every stage begun

vars == <<args, input, docs, unwritable, pc, fmts, pdfs, i, pages, grid, poster,
          fi, out_paths, exc, writes, log, exitCode, trace>>

NoImage == [width |-> 0, height |-> 0, bg |-> <<>>, pastes |-> <<>>,
            resampled |-> FALSE]

ArgparseChoices == <<PNG, JPG, JPEG>>

InitWith(a, inp, d, uw) ==
    /\ args = a
    /\ input = inp
    /\ docs = d
    /\ unwritable = uw
    /\ pc = "parse_args"
    /\ fmts = <<>>
    /\ pdfs = <<>>
    /\ i = 0
    /\ pages = <<>>
    /\ grid = <<0, 0>>
    /\ poster = NoImage
    /\ fi = 0
    /\ out_paths = <<>>
    /\ exc = NoExc
    /\ writes = <<>>
    /\ log = <<>>
    /\ exitCode = -1
    /\ trace = <<>>

locals == <<pages, grid, poster, fi, out_paths>>
world == <<args, input, docs, unwritable>>

(***************************************************************************)
(* main, lines 214-225.                                                    *)
(***************************************************************************)
\* parse_args: argparse rejects a --format outside its choices and exits 2
ParseArgs ==
    /\ pc = "parse_args"
    /\ IF InSeq(args.format, ArgparseChoices)
       THEN /\ pc' = "resolve_formats"
            /\ UNCHANGED <<log, exitCode>>
       ELSE /\ pc' = "exit"
            /\ exitCode' = 2
            /\ log' = Append(log, [kind |-> "USAGE", doc |-> <<>>, text |-> args.format])
    /\ UNCHANGED <<world, fmts, pdfs, i, locals, exc, writes, trace>>

ResolveFormats ==
    /\ pc = "resolve_formats"
    /\ LET rf == resolve_formats(args) IN
       /\ fmts' = rf.out
       /\ log' = log \o [k \in 1..Len(rf.warnings) |->
                           [kind |-> "WARNING", doc |-> <<>>, text |-> rf.warnings[k]]]
    /\ pc' = "find_pdfs"
    /\ UNCHANGED <<world, pdfs, i, locals, exc, writes, exitCode, trace>>

FindPdfs ==
    /\ pc = "find_pdfs"
    /\ pdfs' = find_pdfs(input)
    /\ IF pdfs' = <<>>
       THEN /\ log' = Append(log, [kind |-> "NOPDF", doc |-> <<>>, text |-> <<>>])
            /\ pc' = "exit"
            /\ exitCode' = 1
            /\ i' = i
       ELSE /\ log' = Append(log, [kind |-> "FOUND", doc |-> <<>>, text |-> fmts])
            /\ pc' = "render"
            /\ i' = 1
            /\ exitCode' = exitCode
    /\ UNCHANGED <<world, fmts, locals, exc, writes, trace>>

(***************************************************************************)
(* process_pdf, lines 198-210, one action per call it makes.               *)
(***************************************************************************)
Render ==
    /\ pc = "render"
    /\ trace' = Append(trace, <<"render", i>>)
    /\ IF docs[pdfs[i]].ok
       THEN /\ pages' = docs[pdfs[i]].pages
            /\ pc' = "compute_grid"
            /\ exc' = exc
       ELSE /\ exc' = RenderFailure
            /\ pc' = "except"
            /\ pages' = pages
    /\ UNCHANGED <<world, fmts, pdfs, i, grid, poster, fi, out_paths, writes, log,
                   exitCode>>

ComputeGrid ==
    /\ pc = "compute_grid"
    /\ trace' = Append(trace, <<"plan", i>>)
    /\ LET g == compute_grid(Len(pages), args.cols) IN
       IF g.exc = NoExc
       THEN /\ grid' = g.val
            /\ pc' = "make_poster"
            /\ exc' = exc
       ELSE /\ exc' = g.exc
            /\ pc' = "except"
            /\ grid' = grid
    /\ UNCHANGED <<world, fmts, pdfs, i, pages, poster, fi, out_paths, writes, log,
                   exitCode>>

MakePoster ==
    /\ pc = "make_poster"
    /\ trace' = Append(trace, <<"compose", i>>)
    /\ LET r == make_poster(pages, grid[1], grid[2], args.margin, args.spacing,
                            args.bg) IN
       IF r.exc = NoExc
       THEN /\ poster' = r.val
            /\ pc' = "downscale"
            /\ exc' = exc
       ELSE /\ exc' = r.exc
            /\ pc' = "except"
            /\ poster' = poster
    /\ UNCHANGED <<world, fmts, pdfs, i, pages, grid, fi, out_paths, writes, log,
                   exitCode>>

Downscale ==
    /\ pc = "downscale"
    /\ trace' = Append(trace, <<"resize", i>>)
    /\ poster' = downscale_if_needed(poster, args.max_width)
    /\ pc' = "save"
    /\ fi' = 1
    /\ UNCHANGED <<world, fmts, pdfs, i, pages, grid, out_paths, exc, writes, log,
                   exitCode>>

\* one turn of the loop of lines 204-209; save_image raises when the path
\* cannot be written
SaveImage ==
    /\ pc = "save"
    /\ trace' = Append(trace, <<"save", i>>)
    /\ LET out_path == OutPath(pdfs[i], args.suffix, fmts[fi]) IN
       IF out_path \in unwritable
       THEN /\ exc' = IOFailure
            /\ pc' = "except"
            /\ UNCHANGED <<writes, out_paths, fi>>
       ELSE /\ writes' = Append(writes, [path |-> out_path, doc |-> i,
                                         fmt |-> Upper(fmts[fi]),
                                         width |-> poster.width,
                                         height |-> poster.height])
            /\ out_paths' = Append(out_paths, out_path)
            /\ exc' = exc
            /\ IF fi < Len(fmts)
               THEN fi' = fi + 1 /\ pc' = pc
               ELSE fi' = fi /\ pc' = "ok"
    /\ UNCHANGED <<world, fmts, pdfs, i, pages, grid, poster, log, exitCode>>

(***************************************************************************)
(* main, lines 226-245: the loop over the PDFs.                            *)
(***************************************************************************)
\* the next turn of the for loop; main returns after the last one
NextPdf ==
    /\ i' = i + 1
    /\ pages' = <<>>
    /\ grid' = <<0, 0>>
    /\ poster' = NoImage
    /\ fi' = 0
    /\ out_paths' = <<>>
    /\ IF i < Len(pdfs)
       THEN pc' = "render" /\ exitCode' = exitCode
       ELSE pc' = "exit" /\ exitCode' = 0

ReportOk ==
    /\ pc = "ok"
    /\ log' = Append(log, [kind |-> "OK", doc |-> pdfs[i], text |-> out_paths])
    /\ NextPdf
    /\ UNCHANGED <<world, fmts, pdfs, exc, writes, trace>>

\* variant: the exception ends the run
ReportErrorAbort ==
    /\ pc = "except"
    /\ log' = Append(log, [kind |-> "ERROR", doc |-> pdfs[i], text |-> exc])
    /\ pc' = "exit"
    /\ exitCode' = 1
    /\ UNCHANGED <<world, fmts, pdfs, i, locals, exc, writes, trace>>

\* except Exception as e
ReportError ==
    /\ pc = "except"
    /\ log' = Append(log, [kind |-> "ERROR", doc |-> pdfs[i], text |-> exc])
    /\ exc' = NoExc
    /\ NextPdf
    /\ UNCHANGED <<world, fmts, pdfs, writes, trace>>

Next ==
    \/ ParseArgs
    \/ ResolveFormats
    \/ FindPdfs
    \/ Render
    \/ ComputeGrid
    \/ MakePoster
    \/ Downscale
    \/ SaveImage
    \/ ReportOk
    \/ ReportError

(***************************************************************************)
(* The inputs.                                                             *)
(***************************************************************************)
DefaultMargin == 16
DefaultSpacing == 8
DefaultSuffix == <<"_", "p", "o", "s", "t", "e", "r">>

DefaultArgs ==
    [format |-> PNG, both |-> FALSE, formats |-> <<>>, cols |-> AUTO,
     bg |-> "#FFFFFF", margin |-> DefaultMargin, spacing |-> DefaultSpacing,
     max_width |-> 0, suffix |-> DefaultSuffix]

\* the rendered page sizes: from portrait to landscape, w + h = MaxDim + 1,
\* and one small page
PageSizes ==
    {[width |-> w, height |-> MaxDim + 1 - w] : w \in 1..MaxDim}
        \cup {[width |-> 1, height |-> 1]}
PageLists(n) == UNION {[1..k -> PageSizes] : k \in 0..n}

File(dir, stem, suffix) == <<dir, stem, suffix>>
FileAX == File(<<"a">>, <<"x">>, EXT_PDF)
FileAY == File(<<"a">>, <<"y">>, EXT_PDF)
FileBX == File(<<"b">>, <<"x">>, EXT_PDF)
FileAT == File(<<"a">>, <<"t">>, <<".", "t", "x", "t">>)
FileAU == File(<<"a">>, <<"u">>, <<".", "P", "D", "F">>)

ColsSpecs ==
    {AUTO, <<"A", "u", "t", "o">>, <<"x">>} \cup {IntText(k) : k \in (-1)..MaxCols}

\* one document: every page list, every columns value, margin and spacing
InitLayout ==
    \E pl \in PageLists(MaxPages), c \in ColsSpecs,
       m \in 0..MaxMargin, sp \in 0..MaxSpacing :
        InitWith([DefaultArgs EXCEPT !.cols = c, !.margin = m, !.spacing = sp],
                 [kind |-> "file", files |-> {FileAX}],
                 (FileAX :> [ok |-> TRUE, pages |-> pl]),
                 {})

SpecLayout == InitLayout /\ [][Next]_vars

\* one document of n small pages, n up to MaxGridPages, every columns value
MaxGridPages == 12
SmallPages(n) == [k \in 1..n |-> [width |-> 1 + (k % 2), height |-> 1]]

InitGrid ==
    \E n \in 0..MaxGridPages, c \in ColsSpecs :
        InitWith([DefaultArgs EXCEPT !.cols = c],
                 [kind |-> "file", files |-> {FileAX}],
                 (FileAX :> [ok |-> TRUE, pages |-> SmallPages(n)]),
                 {})

SpecGrid == InitGrid /\ [][Next]_vars

(***************************************************************************)
(* Properties of the layout.                                               *)
(***************************************************************************)
SetMax(S) == CHOOSE x \in S : \A y \in S : y <= x
MaxWidthOf(ims) == SetMax({ims[k].width : k \in 1..Len(ims)})
MaxHeightOf(ims) == SetMax({ims[k].height : k \in 1..Len(ims)})
Abs(x) == IF x < 0 THEN 0 - x ELSE x

\* the poster of make_poster is in the state between MakePoster and Downscale
Composed == pc = "downscale"

\* C1: the canvas of make_poster is cols*cellW + (cols-1)*spacing + 2*margin
\* wide and rows*cellH + (rows-1)*spacing + 2*margin high, cellW and cellH the
\* largest width and height over all pages: for the grid of the run, and for
\* every other cols >= 1 and rows >= 1 on the same pages.
C1_CanvasSize ==
    Composed =>
        LET cellW == MaxWidthOf(pages)
            cellH == MaxHeightOf(pages)
            m == args.margin
            sp == args.spacing
        IN  /\ poster.width = grid[1] * cellW + (grid[1] - 1) * sp + 2 * m
            /\ poster.height = grid[2] * cellH + (grid[2] - 1) * sp + 2 * m
            /\ \A c \in 1..(MaxCols + 1), r \in 1..(MaxPages + 1) :
                 LET p == make_poster(pages, c, r, m, sp, args.bg).val
                 IN  /\ p.width = c * cellW + (c - 1) * sp + 2 * m
                     /\ p.height = r * cellH + (r - 1) * sp + 2 * m

\* three pages of different sizes in a 2x2 grid, the widest not the highest
C1_Witness ==
    /\ Composed
    /\ Len(pages) = 3
    /\ grid = <<2, 2>>
    /\ args.margin = 1 /\ args.spacing = 1
    /\ pages[1] = [width |-> 1, height |-> 3]
    /\ pages[2] = [width |-> 2, height |-> 2]
    /\ pages[3] = [width |-> 1, height |-> 1]
    /\ poster.width = 7 /\ poster.height = 9

\* C2: the page at 0-based index idx is pasted unscaled into the cell at row
\* idx div cols, column idx mod cols, floor((cellW-w)/2) from the cell's left
\* edge and floor((cellH-h)/2) from its top, so that the paddings on opposite
\* sides differ by at most one pixel.
C2_Centered ==
    Composed =>
        \A k \in 1..Len(pages) :
            LET cellW == MaxWidthOf(pages)
                cellH == MaxHeightOf(pages)
                row == (k - 1) \div grid[1]
                col == (k - 1) % grid[1]
                x0 == args.margin + col * (cellW + args.spacing)
                y0 == args.margin + row * (cellH + args.spacing)
                r == poster.pastes[k]
                left == r.x - x0
                right == (x0 + cellW) - (r.x + r.width)
                top == r.y - y0
                bottom == (y0 + cellH) - (r.y + r.height)
            IN  /\ r.width = pages[k].width /\ r.height = pages[k].height
                /\ left = (cellW - pages[k].width) \div 2
                /\ top = (cellH - pages[k].height) \div 2
                /\ left >= 0 /\ right >= 0 /\ top >= 0 /\ bottom >= 0
                /\ Abs(left - right) <= 1
                /\ Abs(top - bottom) <= 1

\* a page below the first row, narrower than its cell by an odd amount
C2_Witness ==
    /\ Composed
    /\ \E k \in 1..Len(pages) :
         /\ (k - 1) \div grid[1] >= 1
         /\ MaxWidthOf(pages) - pages[k].width = 1
         /\ poster.pastes[k].x = args.margin + ((k - 1) % grid[1])
                                   * (MaxWidthOf(pages) + args.spacing)
         /\ poster.pastes[k].y > args.margin

\* the rectangles [x, x+width) x [y, y+height) share no pixel
Disjoint(a, b) ==
    \/ a.x + a.width <= b.x
    \/ b.x + b.width <= a.x
    \/ a.y + a.height <= b.y
    \/ b.y + b.height <= a.y

Inside(a, b) ==
    /\ b.x <= a.x /\ a.x + a.width <= b.x + b.width
    /\ b.y <= a.y /\ a.y + a.height <= b.y + b.height

\* the cell of 0-based index idx
CellRect(idx) ==
    [x |-> args.margin + (idx % grid[1]) * (MaxWidthOf(pages) + args.spacing),
     y |-> args.margin + (idx \div grid[1]) * (MaxHeightOf(pages) + args.spacing),
     width |-> MaxWidthOf(pages), height |-> MaxHeightOf(pages)]

\* C10: with the grid of compute_grid, every page is pasted in a row below
\* rows, inside its own cell, inside the canvas at least margin away from every
\* edge; no two pasted pages share a pixel, and no page reaches into one of
\* the cols*rows - n trailing cells.
C10_PastesDisjoint ==
    Composed =>
        LET n == Len(pages)
            inner == [x |-> args.margin, y |-> args.margin,
                      width |-> poster.width - 2 * args.margin,
                      height |-> poster.height - 2 * args.margin]
        IN  /\ grid[1] * grid[2] >= n
            /\ \A k \in 1..n :
                 /\ (k - 1) \div grid[1] < grid[2]
                 /\ Inside(poster.pastes[k], CellRect(k - 1))
                 /\ Inside(poster.pastes[k], inner)
                 /\ \A l \in 1..n : l # k => Disjoint(poster.pastes[k], poster.pastes[l])
                 /\ \A t \in n..(grid[1] * grid[2] - 1) :
                      Disjoint(poster.pastes[k], CellRect(t))
            /\ Len(poster.pastes) = n

\* three pages of different sizes in a 2x2 grid with touching cells: the last
\* cell is a trailing one
C10_Witness ==
    /\ Composed
    /\ Len(pages) = 3
    /\ grid = <<2, 2>>
    /\ args.spacing = 0
    /\ pages[1] # pages[2]
    /\ pages[3].width < MaxWidthOf(pages)

\* the grid of compute_grid is in the state between ComputeGrid and MakePoster
Planned == pc = "make_poster" /\ Len(pages) >= 1

\* C3: for n >= 1 pages compute_grid returns rows = ceil(n / columns) and
\* columns*rows >= n, where columns = ceil(sqrt(n)) for "auto", columns = 1 and
\* rows = n for "1", and columns = max(1, k) for the decimal text of k.
C3_GridShape ==
    Planned =>
        LET n == Len(pages)
            c == grid[1]
            r == grid[2]
        IN  /\ c >= 1
            /\ r * c >= n /\ (r - 1) * c < n
            /\ Lower(args.cols) = AUTO => c * c >= n /\ (c - 1) * (c - 1) < n
            /\ args.cols = <<"1">> => c = 1 /\ r = n
            /\ \A k \in (-1)..MaxCols : args.cols = IntText(k) => c = Max(1, k)

\* compute_grid(7, "3") = (3, 3)
C3_Witness ==
    /\ Planned
    /\ Len(pages) = 7
    /\ args.cols = <<"3">>
    /\ grid = <<3, 3>>

(***************************************************************************)
(* downscale_if_needed on the posters of one page.                         *)
(***************************************************************************)
InitResize ==
    \E pl \in PageLists(1), m \in 0..MaxMargin, mw \in (-1)..MaxWidth :
        InitWith([DefaultArgs EXCEPT !.margin = m, !.spacing = 0, !.max_width = mw],
                 [kind |-> "file", files |-> {FileAX}],
                 (FileAX :> [ok |-> TRUE, pages |-> pl]),
                 {})

SpecResize == InitResize /\ [][Next]_vars

\* the poster as make_poster returned it
Original == make_poster(pages, grid[1], grid[2], args.margin, args.spacing, args.bg).val

\* the integers nearest to a / b; two of them when a / b is halfway
Nearest(a, b) == {r \in 0..a : 2 * Abs(r * b - a) <= b}

\* the result of downscale_if_needed is in the state after Downscale
Resized == pc = "save" /\ out_paths = <<>>

\* C8: downscale_if_needed returns the image itself when max_width <= 0 or the
\* image is not wider than max_width, and otherwise an image max_width wide and
\* max(1, round(H * max_width / W)) high, rounded to nearest.
C8_RoundedHeight ==
    Resized =>
        LET W == Original.width
            H == Original.height
            mw == args.max_width
        IN  IF mw <= 0 \/ W <= mw
            THEN poster = Original
            ELSE /\ poster.width = mw
                 /\ \E r \in Nearest(H * mw, W) : poster.height = Max(1, r)

(***************************************************************************)
(* The format options, one document.                                       *)
(***************************************************************************)
FormatTokens ==
    {PNG, <<"p", "n", "g">>, JPG, <<" ", "j", "p", "e", "g">>,
     <<"J", "p", "e", "g", " ">>, <<"G", "I", "F">>, <<>>}

TokenLists(n) == UNION {[1..k -> FormatTokens] : k \in 0..n}

InitFormats ==
    \E toks \in TokenLists(MaxTokens), b \in BOOLEAN,
       f \in {PNG, JPG, JPEG, <<"p", "n", "g">>} :
        InitWith([DefaultArgs EXCEPT !.formats = JoinComma(toks), !.both = b,
                                     !.format = f],
                 [kind |-> "file", files |-> {FileAX}],
                 (FileAX :> [ok |-> TRUE, pages |-> SmallPages(Len(toks) % 2)]),
                 {})

SpecFormats == InitFormats /\ [][Next]_vars

Resolved == pc \notin {"parse_args", "resolve_formats"} /\ exitCode # 2

\* the writes of the document at position j of pdfs
WritesOf(j) == {k \in 1..Len(writes) : writes[k].doc = j}

\* C9: the resolved format list is not empty, has no duplicate and holds only
\* PNG and JPEG; a document processed without error has exactly one file per
\* resolved format, <stem><suffix>.png or .jpg, and no path of one document is
\* written twice.
C9_FormatsDistinct ==
    /\ Resolved =>
         /\ fmts # <<>>
         /\ \A k \in 1..Len(fmts) : fmts[k] \in {PNG, JPEG}
         /\ \A k, l \in 1..Len(fmts) : k # l => fmts[k] # fmts[l]
    /\ \A k, l \in 1..Len(writes) :
         (k # l /\ writes[k].doc = writes[l].doc) => writes[k].path # writes[l].path
    /\ pc = "ok" =>
         /\ Len(out_paths) = Len(fmts)
         /\ Cardinality(WritesOf(i)) = Len(fmts)
         /\ \A n \in 1..Len(fmts) :
              \E k \in WritesOf(i) :
                 /\ writes[k].fmt = fmts[n]
                 /\ writes[k].path = PathStem(pdfs[i]) \o args.suffix
                       \o (IF fmts[n] = JPEG THEN EXT_JPG ELSE EXT_PNG)

\* "jpg,Jpeg ,png": the alias and the repeated token give JPEG once, then PNG
C9_Witness ==
    /\ pc = "ok"
    /\ args.formats = JoinComma(<<JPG, <<"J", "p", "e", "g", " ">>, <<"p", "n", "g">>>>)
    /\ fmts = <<JPEG, PNG>>
    /\ Len(writes) = 2
    /\ writes[1].path = <<"x">> \o DefaultSuffix \o EXT_JPG
    /\ writes[2].path = <<"x">> \o DefaultSuffix \o EXT_PNG

(***************************************************************************)
(* Batch runs: up to MaxDocs PDFs, good, empty or broken, under a          *)
(* directory or given as one file; one option changed from its default.    *)
(***************************************************************************)
ArgsVariants ==
    {DefaultArgs,
     [DefaultArgs EXCEPT !.cols = <<"2">>],
     [DefaultArgs EXCEPT !.cols = <<"1">>],
     [DefaultArgs EXCEPT !.cols = <<"a", "b">>],
     [DefaultArgs EXCEPT !.bg = "nocolor"],
     [DefaultArgs EXCEPT !.format = <<"p", "n", "g">>],
     [DefaultArgs EXCEPT !.formats = <<"G", "I", "F">>],
     [DefaultArgs EXCEPT !.both = TRUE],
     [DefaultArgs EXCEPT !.max_width = MaxWidth]}

PdfPool == {FileAX, FileAY, FileBX}

Inputs ==
    {[kind |-> "dir", files |-> S \cup T] :
        S \in {S \in SUBSET PdfPool : Cardinality(S) <= MaxDocs},
        T \in {{}, {FileAT}, {FileAU}}}
    \cup {[kind |-> "file", files |-> {f}] : f \in {FileAX, FileAT, FileAU}}
    \cup {[kind |-> "missing", files |-> {}]}

DocContents ==
    {[ok |-> FALSE, pages |-> <<>>],
     [ok |-> TRUE, pages |-> <<>>],
     [ok |-> TRUE, pages |-> <<[width |-> 2, height |-> 1]>>],
     [ok |-> TRUE, pages |-> <<[width |-> 1, height |-> 2], [width |-> 2, height |-> 1]>>]}

\* no path, or one output path of one of the files, cannot be written
Unwritables(files, suffix) ==
    {{}} \cup {{OutPath(f, suffix, fmt)} : f \in files, fmt \in {PNG, JPEG}}

\* the files of an input that hold a document
Documents(inp) ==
    IF inp.kind = "dir" THEN inp.files \cap PdfPool ELSE inp.files \ {FileAT}

Init ==
    \E a \in ArgsVariants, inp \in Inputs :
        \E d \in [Documents(inp) -> DocContents],
           uw \in Unwritables(Documents(inp), a.suffix) :
            InitWith(a, inp, d, uw)

Spec == Init /\ [][Next]_vars

(***************************************************************************)
(* Properties of batch runs.                                               *)
(***************************************************************************)
\* the positions in log of the OK and ERROR lines, from position k on
RECURSIVE ReportsFrom(_)
ReportsFrom(k) ==
    IF k > Len(log) THEN <<>>
    ELSE IF log[k].kind \in {"OK", "ERROR"} THEN <<k>> \o ReportsFrom(k + 1)
    ELSE ReportsFrom(k + 1)
Reports == ReportsFrom(1)

\* the positions in trace of the render stages, from position k on
RECURSIVE RendersFrom(_)
RendersFrom(k) ==
    IF k > Len(trace) THEN <<>>
    ELSE IF trace[k][1] = "render" THEN <<k>> \o RendersFrom(k + 1)
    ELSE RendersFrom(k + 1)
Renders == RendersFrom(1)

\* the rank of a stage in process_pdf
StageRank(st) ==
    CASE st = "render" -> 1 [] st = "plan" -> 2 [] st = "compose" -> 3
      [] st = "resize" -> 4 [] st = "save" -> 5

\* the documents main is done with
Finished == IF pc = "exit" THEN Len(pdfs) ELSE i - 1

\* what decides, outside the program, that a document cannot fail
Sound(j) ==
    /\ docs[pdfs[j]].ok
    /\ docs[pdfs[j]].pages # <<>>
    /\ (Lower(args.cols) = AUTO \/ IsDigits(args.cols))
    /\ args.bg \in {"#FFFFFF", "white", "#f7f7f7"}
    /\ \A f \in {PNG, JPEG} : OutPath(pdfs[j], args.suffix, f) \notin unwritable

Started == pdfs # <<>>

\* C4: in a batch every found document is attempted exactly once, in the order
\* of the sorted list, and brought to its report before the next begins; a
\* failure in any stage is reported with the document's path and does not end
\* the run; every document that does not fail has one file per format written.
C4_FailuresIsolated ==
    Started =>
        \* the list holds the PDFs found, each once, in ascending order
        /\ {pdfs[k] : k \in 1..Len(pdfs)} =
               (IF input.kind = "dir"
                THEN {p \in input.files : PathSuffix(p) = EXT_PDF}
                ELSE input.files)
        /\ \A k, l \in 1..Len(pdfs) : k < l => PathLess(pdfs[k], pdfs[l])
        \* attempted once each, in order
        /\ Len(Renders) = (IF pc = "render" THEN i - 1 ELSE Min(i, Len(pdfs)))
        /\ \A k \in 1..Len(Renders) : trace[Renders[k]][2] = k
        \* one document at a time, its stages in order
        /\ \A k \in 1..(Len(trace) - 1) :
             \/ trace[k][2] < trace[k + 1][2] /\ trace[k + 1][1] = "render"
             \/ /\ trace[k][2] = trace[k + 1][2]
                /\ StageRank(trace[k][1]) <= StageRank(trace[k + 1][1])
        \* one report per finished document, naming it
        /\ Len(Reports) = Finished
        /\ \A k \in 1..Len(Reports) : log[Reports[k]].doc = pdfs[k]
        \* a failure ends the document, not the run
        /\ pc = "exit" => exitCode = 0 /\ i = Len(pdfs) + 1
        /\ pc = "except" => exc # NoExc /\ i <= Len(pdfs)
        \* a document that does not fail is written, whatever came before
        /\ \A j \in 1..Finished :
             (Sound(j) \/ log[Reports[j]].kind = "OK") =>
                 /\ log[Reports[j]].kind = "OK"
                 /\ \A n \in 1..Len(fmts) :
                      \E k \in WritesOf(j) :
                         writes[k].path = OutPath(pdfs[j], args.suffix, fmts[n])

\* a broken document first, then a good one: the run ends with the error of
\* the first reported and the output of the second written
C4_Witness ==
    /\ pc = "exit"
    /\ Len(pdfs) = 2
    /\ ~docs[pdfs[1]].ok
    /\ Len(Reports) = 2
    /\ log[Reports[1]].kind = "ERROR" /\ log[Reports[1]].doc = FileAX
    /\ log[Reports[2]].kind = "OK" /\ log[Reports[2]].doc = FileAY
    /\ Len(writes) = 1 /\ writes[1].doc = 2

ErrorReports == {k \in 1..Len(log) : log[k].kind = "ERROR"}

\* the document in hand rendered to zero pages
ZeroPages(j) == docs[pdfs[j]].ok /\ docs[pdfs[j]].pages = <<>>

\* C5: a document of zero pages fails, for "auto", "1" and every integer
\* columns value, with the error of make_poster for an empty page list; no file
\* is written for it, the failure is reported and the run goes on.
C5_EmptyInputError ==
    /\ (pc = "except" /\ ZeroPages(i)
            /\ (Lower(args.cols) = AUTO \/ ParseInt(args.cols).exc = NoExc))
         => exc = EmptyInput
    /\ \A j \in 1..Finished :
         (Started /\ ZeroPages(j)) =>
             /\ log[Reports[j]].kind = "ERROR"
             /\ WritesOf(j) = {}

\* C6: a columns value that is no integer and not "auto", a --format outside
\* PNG/JPG/JPEG and a background that is no colour end the run with an
\* error before any document is rendered or written, and are never reported
\* as the failure of a document.
C6_ConfigErrorFirst ==
    /\ exc \in {BadInt, BadColor} => trace = <<>> /\ writes = <<>>
    /\ \A k \in ErrorReports : log[k].text \notin {BadInt, BadColor}
    /\ exitCode = 2 => trace = <<>> /\ writes = <<>>

\* C7: a run in which a document failed ends with a non-zero exit status,
\* the files of the documents that did not fail written.
C7_NonZeroExit ==
    (pc = "exit" /\ ErrorReports # {}) =>
        /\ exitCode # 0
        /\ \A j \in 1..Finished :
             log[Reports[j]].kind = "OK" => Cardinality(WritesOf(j)) = Len(fmts)

====
